---- MODULE Spec2Model ----
(***************************************************************************)
(* Model of expense_tracker.py: the menu loop of main, the CSV load and    *)
(* save, the input validation of add_expense and the two reports.          *)
(*                                                                         *)
(* Python strings are sequences of one-character strings, so that strip,   *)
(* lower, capitalize, float(), strptime and the csv dialect are computed   *)
(* character by character.  A float is a record [k, v]: k = "fin" with v   *)
(* the value in halves (2.5 is v = 5), k = "inf" with v the sign, or       *)
(* k = "nan".  Halves are exact in binary floating point, so the sums of   *)
(* the model are the sums of the code.                                     *)
(***************************************************************************)
EXTENDS Integers, Sequences, FiniteSets, TLC

VARIABLES pc, file, expenses, date, amount, category, line, saveStatus, output

vars == <<pc, file, expenses, date, amount, category, line, saveStatus, output>>

(***************************************************************************)
(* Bounds of the model.                                                    *)
(***************************************************************************)
MaxExpenses == 2
MaxFileRows == 2

(***************************************************************************)
(* Characters and the str methods the program calls.                       *)
(***************************************************************************)
Digits == <<"0", "1", "2", "3", "4", "5", "6", "7", "8", "9">>
Lowers == <<"a", "b", "c", "d", "e", "f", "g", "h", "i", "j", "k", "l", "m",
            "n", "o", "p", "q", "r", "s", "t", "u", "v", "w", "x", "y", "z">>
Uppers == <<"A", "B", "C", "D", "E", "F", "G", "H", "I", "J", "K", "L", "M",
            "N", "O", "P", "Q", "R", "S", "T", "U", "V", "W", "X", "Y", "Z">>
Whitespace == {" ", "\t", "\n", "\r"}

IndexIn(c, s) == IF \E i \in 1..Len(s) : s[i] = c
                 THEN CHOOSE i \in 1..Len(s) : s[i] = c
                 ELSE 0

IsDigit(c) == IndexIn(c, Digits) > 0
DigitVal(c) == IndexIn(c, Digits) - 1

LowerChar(c) == IF IndexIn(c, Uppers) > 0 THEN Lowers[IndexIn(c, Uppers)] ELSE c
UpperChar(c) == IF IndexIn(c, Lowers) > 0 THEN Uppers[IndexIn(c, Lowers)] ELSE c

\* str.lower()
lower(s) == [i \in 1..Len(s) |-> LowerChar(s[i])]

\* str.strip()
RECURSIVE lstrip(_)
lstrip(s) == IF s # <<>> /\ Head(s) \in Whitespace THEN lstrip(Tail(s)) ELSE s
RECURSIVE rstrip(_)
rstrip(s) == IF s # <<>> /\ s[Len(s)] \in Whitespace
             THEN rstrip(SubSeq(s, 1, Len(s) - 1))
             ELSE s
strip(s) == rstrip(lstrip(s))

\* a capitalize that leaves the characters after the first as they are
CapitalizeFirstOnly(s) == [i \in 1..Len(s) |-> IF i = 1 THEN UpperChar(s[i]) ELSE s[i]]

\* str.capitalize(): the first character upper-cased, all the others lower-cased
capitalize(s) == [i \in 1..Len(s) |-> IF i = 1 THEN UpperChar(s[i]) ELSE LowerChar(s[i])]

AllDigits(s) == \A i \in 1..Len(s) : IsDigit(s[i])

RECURSIVE NatOf(_)
NatOf(s) == IF s = <<>> THEN 0
            ELSE 10 * NatOf(SubSeq(s, 1, Len(s) - 1)) + DigitVal(s[Len(s)])

RECURSIVE DigitsOf(_)
DigitsOf(n) == IF n < 10 THEN <<Digits[n + 1]>>
               ELSE DigitsOf(n \div 10) \o <<Digits[(n % 10) + 1]>>

(***************************************************************************)
(* Floats: float(str), str(float) and the arithmetic the reports use.      *)
(***************************************************************************)
Fin(v) == [k |-> "fin", v |-> v]
NaN == [k |-> "nan", v |-> 0]
Inf(sign) == [k |-> "inf", v |-> sign]

\* the halves of a fraction part: exact for "", "0", "5", "50", ...; any other
\* fraction is cut down to the half below it (the inputs of the model have none)
FracHalves(f) == IF f # <<>> /\ DigitVal(f[1]) >= 5 THEN 1 ELSE 0

\* float(s) of an unsigned body: [ok, val]
ParseUnsigned(b) ==
    LET dot == IndexIn(".", b)
        whole == IF dot = 0 THEN b ELSE SubSeq(b, 1, dot - 1)
        frac == IF dot = 0 THEN <<>> ELSE SubSeq(b, dot + 1, Len(b))
    IN  IF b = <<"n", "a", "n">> THEN [ok |-> TRUE, val |-> NaN]
        ELSE IF b = <<"i", "n", "f">> \/ b = <<"i", "n", "f", "i", "n", "i", "t", "y">>
        THEN [ok |-> TRUE, val |-> Inf(1)]
        ELSE IF AllDigits(whole) /\ AllDigits(frac) /\ Len(whole) + Len(frac) > 0
        THEN [ok |-> TRUE, val |-> Fin(2 * NatOf(whole) + FracHalves(frac))]
        ELSE [ok |-> FALSE, val |-> NaN]

Negate(x) == IF x.k = "nan" THEN x ELSE [k |-> x.k, v |-> 0 - x.v]

\* float(s): surrounding whitespace and case are ignored, one sign is allowed;
\* ok = FALSE is ValueError.  Exponents and digit separators are not modelled.
ParseFloat(s) ==
    LET t == lower(strip(s))
        signed == t # <<>> /\ t[1] \in {"+", "-"}
        body == ParseUnsigned(IF signed THEN Tail(t) ELSE t)
    IN  IF signed /\ t[1] = "-" /\ body.ok
        THEN [ok |-> TRUE, val |-> Negate(body.val)]
        ELSE body

\* str(x) of a float: "2.5", "0.0", "-1.0", "nan", "inf", "-inf"
FormatFloat(x) ==
    IF x.k = "nan" THEN <<"n", "a", "n">>
    ELSE IF x.k = "inf"
    THEN (IF x.v < 0 THEN <<"-">> ELSE <<>>) \o <<"i", "n", "f">>
    ELSE LET a == IF x.v < 0 THEN 0 - x.v ELSE x.v
         IN  (IF x.v < 0 THEN <<"-">> ELSE <<>>)
             \o DigitsOf(a \div 2) \o <<".">> \o (IF a % 2 = 1 THEN <<"5">> ELSE <<"0">>)

\* x < 0
FloatNegative(x) == x.k # "nan" /\ x.v < 0

\* x + y
FloatAdd(x, y) ==
    IF x.k = "nan" \/ y.k = "nan" THEN NaN
    ELSE IF x.k = "inf" /\ y.k = "inf" THEN (IF x.v = y.v THEN x ELSE NaN)
    ELSE IF x.k = "inf" THEN x
    ELSE IF y.k = "inf" THEN y
    ELSE Fin(x.v + y.v)

(***************************************************************************)
(* datetime.strptime(date_str, "%m/%d/%Y"): TRUE iff it does not raise.    *)
(***************************************************************************)
RECURSIVE SplitOn(_, _)
SplitOn(s, sep) ==
    LET i == IndexIn(sep, s)
    IN  IF i = 0 THEN <<s>>
        ELSE <<SubSeq(s, 1, i - 1)>> \o SplitOn(SubSeq(s, i + 1, Len(s)), sep)

IsLeap(y) == (y % 4 = 0 /\ y % 100 # 0) \/ y % 400 = 0

DaysInMonth(m, y) ==
    IF m = 2 THEN (IF IsLeap(y) THEN 29 ELSE 28)
    ELSE IF m \in {4, 6, 9, 11} THEN 30
    ELSE 31

\* %m is 1[0-2]|0[1-9]|[1-9]
MonthField(s) == /\ Len(s) \in {1, 2}
                 /\ AllDigits(s)
                 /\ NatOf(s) \in 1..12

\* %d is 3[01]|[12]\d|0[1-9]|[1-9]| [1-9]
DayField(s) == \/ /\ Len(s) \in {1, 2}
                  /\ AllDigits(s)
                  /\ NatOf(s) \in 1..31
               \/ /\ Len(s) = 2
                  /\ s[1] = " "
                  /\ IsDigit(s[2])
                  /\ s[2] # "0"

\* %Y is \d\d\d\d, and datetime has no year 0
YearField(s) == Len(s) = 4 /\ AllDigits(s) /\ NatOf(s) >= 1

DayOf(s) == IF s[1] = " " THEN NatOf(Tail(s)) ELSE NatOf(s)

strptime(date_str) ==
    LET p == SplitOn(date_str, "/")
    IN  /\ Len(p) = 3
        /\ MonthField(p[1])
        /\ DayField(p[2])
        /\ YearField(p[3])
        /\ DayOf(p[2]) <= DaysInMonth(NatOf(p[1]), NatOf(p[3]))

(***************************************************************************)
(* csv.writer, default dialect: delimiter ",", quotechar '"', doublequote, *)
(* QUOTE_MINIMAL, lineterminator "\r\n".                                   *)
(***************************************************************************)
NeedsQuote(s) == \E i \in 1..Len(s) : s[i] \in {",", "\"", "\r", "\n"}

\* a writer that does not double the quotes inside a quoted field
QuotesNotDoubled(s) == s

RECURSIVE DoubleQuotes(_)
DoubleQuotes(s) ==
    IF s = <<>> THEN <<>>
    ELSE (IF Head(s) = "\"" THEN <<"\"", "\"">> ELSE <<Head(s)>>) \o DoubleQuotes(Tail(s))

WriteField(s) == IF NeedsQuote(s) THEN <<"\"">> \o DoubleQuotes(s) \o <<"\"">> ELSE s

RECURSIVE JoinFields(_)
JoinFields(row) ==
    IF Len(row) = 0 THEN <<>>
    ELSE IF Len(row) = 1 THEN WriteField(row[1])
    ELSE WriteField(row[1]) \o <<",">> \o JoinFields(Tail(row))

\* writer.writerow(row)
writerow(row) == JoinFields(row) \o <<"\r", "\n">>

(***************************************************************************)
(* csv.reader over a file opened with newline='': the reader's state       *)
(* machine is fed every line of the text, character by character, and an   *)
(* end-of-line signal after each line.  A reader state is                  *)
(* [st, field, fields, rows, err]: the field and the record being built,   *)
(* the records returned so far, and whether csv.Error was raised.          *)
(***************************************************************************)
EOL == "EOL"

ReaderStart == [st |-> "START_RECORD", field |-> <<>>, fields |-> <<>>,
                rows |-> <<>>, err |-> FALSE]

parse_add_char(r, c) == [r EXCEPT !.field = Append(@, c)]

parse_save_field(r) == [r EXCEPT !.fields = Append(@, r.field), !.field = <<>>]

AfterNewline(c) == IF c = EOL THEN "START_RECORD" ELSE "EAT_CRNL"

StartField(r, c) ==
    IF c \in {"\n", "\r", EOL}
    THEN [parse_save_field(r) EXCEPT !.st = AfterNewline(c)]
    ELSE IF c = "\"" THEN [r EXCEPT !.st = "IN_QUOTED_FIELD"]
    ELSE IF c = "," THEN [parse_save_field(r) EXCEPT !.st = "START_FIELD"]
    ELSE [parse_add_char(r, c) EXCEPT !.st = "IN_FIELD"]

parse_process_char(r, c) ==
    CASE r.st = "START_RECORD" ->
            IF c = EOL THEN r
            ELSE IF c \in {"\n", "\r"} THEN [r EXCEPT !.st = "EAT_CRNL"]
            ELSE StartField(r, c)
      [] r.st = "START_FIELD" -> StartField(r, c)
      [] r.st = "IN_FIELD" ->
            IF c \in {"\n", "\r", EOL}
            THEN [parse_save_field(r) EXCEPT !.st = AfterNewline(c)]
            ELSE IF c = "," THEN [parse_save_field(r) EXCEPT !.st = "START_FIELD"]
            ELSE parse_add_char(r, c)
      [] r.st = "IN_QUOTED_FIELD" ->
            IF c = EOL THEN r
            ELSE IF c = "\"" THEN [r EXCEPT !.st = "QUOTE_IN_QUOTED_FIELD"]
            ELSE parse_add_char(r, c)
      [] r.st = "QUOTE_IN_QUOTED_FIELD" ->
            IF c = "\"" THEN [parse_add_char(r, c) EXCEPT !.st = "IN_QUOTED_FIELD"]
            ELSE IF c = "," THEN [parse_save_field(r) EXCEPT !.st = "START_FIELD"]
            ELSE IF c \in {"\n", "\r", EOL}
            THEN [parse_save_field(r) EXCEPT !.st = AfterNewline(c)]
            ELSE [parse_add_char(r, c) EXCEPT !.st = "IN_FIELD"]
      [] r.st = "EAT_CRNL" ->
            IF c \in {"\n", "\r"} THEN r
            ELSE IF c = EOL THEN [r EXCEPT !.st = "START_RECORD"]
            ELSE [r EXCEPT !.err = TRUE]

\* the record is returned once the state machine is back at START_RECORD
ReturnRecord(r) ==
    IF r.st = "START_RECORD" /\ ~r.err
    THEN [r EXCEPT !.rows = Append(@, r.fields), !.fields = <<>>]
    ELSE r

\* the text's i-th character ends a line: "\n", "\r\n", a lone "\r", or the end
EndsLine(text, i) ==
    \/ i = Len(text)
    \/ text[i] = "\n"
    \/ text[i] = "\r" /\ text[i + 1] # "\n"

\* Reader_iternext at the end of the input
EndOfInput(r) ==
    IF ~r.err /\ (r.field # <<>> \/ r.st = "IN_QUOTED_FIELD")
    THEN LET q == parse_save_field(r)
         IN  [q EXCEPT !.rows = Append(@, q.fields), !.fields = <<>>]
    ELSE r

\* the i-th character of the text, and the end-of-line signal if it ends a line
FeedChar(r, text, i) ==
    IF r.err THEN r
    ELSE LET a == parse_process_char(r, text[i])
         IN  IF EndsLine(text, i) /\ ~a.err
             THEN ReturnRecord(parse_process_char(a, EOL))
             ELSE a

\* the characters lo..hi of the text, in order
RECURSIVE Feed(_, _, _, _)
Feed(r, text, lo, hi) ==
    IF r.err \/ lo > hi THEN r
    ELSE IF lo = hi THEN FeedChar(r, text, lo)
    ELSE LET mid == (lo + hi) \div 2
         IN  Feed(Feed(r, text, lo, mid), text, mid + 1, hi)

\* list(csv.reader(file)) with the csv.Error, if any, that ends it
csv_reader(text) == EndOfInput(Feed(ReaderStart, text, 1, Len(text)))

(***************************************************************************)
(* The persistence adapter.  An expense is                                 *)
(* [date, amount, category, description]; the file is [exists, text].      *)
(***************************************************************************)
HeaderRow == << <<"D", "a", "t", "e">>,
                <<"A", "m", "o", "u", "n", "t">>,
                <<"C", "a", "t", "e", "g", "o", "r", "y">>,
                <<"D", "e", "s", "c", "r", "i", "p", "t", "i", "o", "n">> >>

ExpenseRow(e) == <<e.date, FormatFloat(e.amount), e.category, e.description>>

RECURSIVE WriteRows(_)
WriteRows(rows) ==
    IF rows = <<>> THEN <<>> ELSE writerow(Head(rows)) \o WriteRows(Tail(rows))

\* a save that writes the header and the newest entry only
SaveNewestOnly(exps) ==
    writerow(HeaderRow)
        \o (IF exps = <<>> THEN <<>> ELSE writerow(ExpenseRow(exps[Len(exps)])))

\* what save_expenses_to_csv writes when nothing fails
SaveText(exps) ==
    writerow(HeaderRow) \o WriteRows([i \in 1..Len(exps) |-> ExpenseRow(exps[i])])

\* a load loop that stops at the first short row instead of skipping it
RECURSIVE LoadStopsAtShortRow(_, _)
LoadStopsAtShortRow(rows, acc) ==
    IF rows = <<>> \/ Len(Head(rows)) < 4 THEN [expenses |-> acc, error |-> FALSE]
    ELSE LET row == Head(rows)
             f == ParseFloat(row[2])
         IN  IF f.ok
             THEN LoadStopsAtShortRow(Tail(rows),
                                      Append(acc, [date |-> row[1], amount |-> f.val,
                                                   category |-> row[3],
                                                   description |-> row[4]]))
             ELSE [expenses |-> acc, error |-> TRUE]

\* the for loop of load_expenses_from_csv over the rows after the header:
\* float() raising ValueError ends the loop with the rows appended so far
RECURSIVE LoadRows(_, _)
LoadRows(rows, acc) ==
    IF rows = <<>> THEN [expenses |-> acc, error |-> FALSE]
    ELSE LET row == Head(rows)
         IN  IF Len(row) >= 4
             THEN LET f == ParseFloat(row[2])
                  IN  IF f.ok
                      THEN LoadRows(Tail(rows),
                                    Append(acc, [date |-> row[1], amount |-> f.val,
                                                 category |-> row[3],
                                                 description |-> row[4]]))
                      ELSE [expenses |-> acc, error |-> TRUE]
             ELSE LoadRows(Tail(rows), acc)

\* load_expenses_from_csv: [expenses |-> the list returned, error |-> whether
\* "Error loading expenses" was printed]
load_expenses_from_csv(text) ==
    LET r == csv_reader(text)
        loaded == LoadRows(IF r.rows = <<>> THEN <<>> ELSE Tail(r.rows), <<>>)
    IN  [expenses |-> loaded.expenses, error |-> loaded.error \/ r.err]

NoFile == [exists |-> FALSE, text |-> <<>>]
FileWith(text) == [exists |-> TRUE, text |-> text]

\* what a save that raises leaves on disk: the old file when open() fails, or
\* the new text cut at the start or after one of its lines when a write fails
SaveFailures(old, text) ==
    {old} \cup {FileWith(SubSeq(text, 1, k)) :
                   k \in {0} \cup {i \in 1..(Len(text) - 1) : text[i] = "\n"}}

(***************************************************************************)
(* The reporting engine.                                                   *)
(***************************************************************************)
\* the keys of category_totals in insertion order
RECURSIVE CategoryKeys(_, _)
CategoryKeys(exps, seen) ==
    IF exps = <<>> THEN seen
    ELSE CategoryKeys(Tail(exps),
                      IF \E i \in 1..Len(seen) : seen[i] = Head(exps).category
                      THEN seen
                      ELSE Append(seen, Head(exps).category))

\* a grouping loop that assigns where it should add
RECURSIVE CategoryTotalAssigned(_, _)
CategoryTotalAssigned(exps, c) ==
    IF exps = <<>> THEN Fin(0)
    ELSE IF exps[Len(exps)].category = c THEN exps[Len(exps)].amount
    ELSE CategoryTotalAssigned(SubSeq(exps, 1, Len(exps) - 1), c)

\* category_totals[c] after the grouping loop
RECURSIVE CategoryTotal(_, _)
CategoryTotal(exps, c) ==
    IF exps = <<>> THEN Fin(0)
    ELSE LET rest == SubSeq(exps, 1, Len(exps) - 1)
             last == exps[Len(exps)]
         IN  IF last.category # c THEN CategoryTotal(rest, c)
             ELSE IF \E i \in 1..Len(rest) : rest[i].category = c
             THEN FloatAdd(CategoryTotal(rest, c), last.amount)
             ELSE last.amount

category_totals(exps) ==
    [c \in {exps[i].category : i \in 1..Len(exps)} |-> CategoryTotal(exps, c)]

\* sum(xs) of a sequence of floats
RECURSIVE FloatSum(_)
FloatSum(xs) ==
    IF xs = <<>> THEN Fin(0)
    ELSE FloatAdd(FloatSum(SubSeq(xs, 1, Len(xs) - 1)), xs[Len(xs)])

\* sum(category_totals.values())
TotalOfCategories(exps) ==
    LET keys == CategoryKeys(exps, <<>>)
    IN  FloatSum([i \in 1..Len(keys) |-> category_totals(exps)[keys[i]]])

\* sum(expense["amount"] for expense in expenses)
TotalSpent(exps) == FloatSum([i \in 1..Len(exps) |-> exps[i].amount])

NoTotals == [c \in {} |-> Fin(0)]

Report(kind, totals, total) == [kind |-> kind, totals |-> totals, total |-> total]

Quiet(kind) == Report(kind, NoTotals, Fin(0))

view_expenses(exps) ==
    IF exps = <<>> THEN Quiet("no_expenses")
    ELSE Report("totals", category_totals(exps), TotalOfCategories(exps))

\* what (total / total_spent) * 100 followed by round(percentage / 2) does:
\* "ZeroDivisionError", "ValueError" (round of nan), "OverflowError" (round of
\* inf) or "ok"
PercentageOutcome(total, total_spent) ==
    IF total_spent.k = "fin" /\ total_spent.v = 0 THEN "ZeroDivisionError"
    ELSE IF total.k = "nan" \/ total_spent.k = "nan" THEN "ValueError"
    ELSE IF total.k = "inf" /\ total_spent.k = "inf" THEN "ValueError"
    ELSE IF total.k = "inf" THEN "OverflowError"
    ELSE "ok"

\* the exceptions show_statistics raises on a non-empty store
StatisticsErrors(exps) ==
    {PercentageOutcome(category_totals(exps)[c], TotalSpent(exps)) :
        c \in DOMAIN category_totals(exps)} \ {"ok"}

show_statistics(exps) ==
    IF exps = <<>> THEN Quiet("no_statistics")
    ELSE Report("statistics", category_totals(exps), TotalSpent(exps))

(***************************************************************************)
(* The inputs of the model: the lines typed at the prompts, the date of    *)
(* the clock and the rows of the file found at startup.                    *)
(***************************************************************************)
ChoiceInputs == { <<"1">>, <<" ", "A", "D", "D">>, <<"2">>, <<"V", "i", "e", "w">>,
                  <<"3">>, <<"s", "t", "a", "t", "s">>, <<"4">>,
                  <<"E", "X", "I", "T", " ">>, <<"5">>, <<>> }

Jan15 == <<"0", "1", "/", "1", "5", "/", "2", "0", "2", "4">>

DateInputs == { <<" ", "0", "1", "/", "1", "5", "/", "2", "0", "2", "4">>,
                <<"0", "2", "/", "3", "0", "/", "2", "0", "2", "4">>,
                <<"T", "o", "d", "a", "y">> }

\* datetime.now().strftime("%m/%d/%Y")
Todays == { Jan15 }

AmountInputs == { <<"0">>, <<" ", "2", ".", "5">>, <<"n", "a", "n">>,
                  <<"-", "1">>, <<"a", "b", "c">> }

CategoryInputs == { <<" ", "f", "O", " ">>, <<>>, <<" ">> }

DescriptionInputs == { <<>>, <<" ", ",", "\"", " ">> }

FileRows == { <<Jan15, <<"5", ".", "0">>, <<"F", "o", "o", "d">>, <<"a">>>>,
              <<Jan15, <<"2", ".", "5">>>>,
              <<Jan15, <<"a", "b", "c">>, <<"F", "o", "o", "d">>, <<"x">>>>,
              <<<<"1", "3", "/", "4", "5">>, <<"-", "5", ".", "0">>, <<>>, <<",">>>>,
              <<<<"1", "/", "5", "/", "2", "0", "2", "4">>, <<"i", "n", "f">>,
                <<"B", "u", "s">>, <<"a", "\"", "b">>, <<"z">>>> }

RowSeqs == UNION {[1..n -> FileRows] : n \in 0..MaxFileRows}

FileOf(rows) == FileWith(writerow(HeaderRow) \o WriteRows(rows))

\* the files load is checked on
LoadFiles == {NoFile} \cup {FileOf(rows) : rows \in RowSeqs}

\* the files a run of the whole program starts from: none, or one row that loads
StartFiles ==
    {NoFile} \cup {FileOf(<<row>>) : row \in {r \in FileRows : Len(r) >= 4 /\ ParseFloat(r[2]).ok}}

(***************************************************************************)
(* The program.  pc is the place the process waits for input at: "start"   *)
(* before main runs, "menu" at the menu prompt, "date", "amount",          *)
(* "category", "description" at the prompts of add_expense; "exited" after *)
(* the loop's break and "crashed" after an exception nothing catches.      *)
(* line is the last line read at a prompt of add_expense; date, amount and *)
(* category are its locals; saveStatus is what the last save printed;      *)
(* output is what the last menu action reported.                           *)
(***************************************************************************)
NoLine == <<>>

InitWith(files) ==
    /\ pc = "start"
    /\ file \in files
    /\ expenses = <<>>
    /\ date = <<>>
    /\ amount = Fin(0)
    /\ category = <<>>
    /\ line = NoLine
    /\ saveStatus = "none"
    /\ output = Quiet("none")

\* main, up to the first menu
Startup ==
    /\ pc = "start"
    /\ pc' = "menu"
    /\ IF file.exists
       THEN LET l == load_expenses_from_csv(file.text)
            IN  /\ expenses' = l.expenses
                /\ output' = Quiet(IF l.error THEN "load_error" ELSE "loaded")
       ELSE /\ expenses' = <<>>
            /\ output' = Quiet("fresh")
    /\ UNCHANGED <<file, date, amount, category, line, saveStatus>>

Choice(raw) == lower(strip(raw))

IsAdd(choice) == choice \in { <<"1">>, <<"a", "d", "d">> }
IsView(choice) == choice \in { <<"2">>, <<"v", "i", "e", "w">> }
IsStats(choice) == choice \in { <<"3">>, <<"s", "t", "a", "t", "s">> }
IsExit(choice) == choice \in { <<"4">>, <<"e", "x", "i", "t">> }

\* choice 1: add_expense starts and prompts for the date
ChooseAdd ==
    /\ pc = "menu"
    /\ Len(expenses) < MaxExpenses
    /\ \E raw \in ChoiceInputs : IsAdd(Choice(raw))
    /\ pc' = "date"
    /\ output' = Quiet("add")
    /\ UNCHANGED <<file, expenses, date, amount, category, line, saveStatus>>

\* get_valid_date_from_user, one pass of its loop
EnterDate ==
    /\ pc = "date"
    /\ \E raw \in DateInputs :
          LET date_str == strip(raw)
          IN  /\ line' = raw
              /\ IF lower(date_str) = <<"t", "o", "d", "a", "y">>
                 THEN /\ date' \in Todays
                      /\ pc' = "amount"
                 ELSE IF strptime(date_str)
                 THEN /\ date' = date_str
                      /\ pc' = "amount"
                 ELSE UNCHANGED <<date, pc>>
    /\ UNCHANGED <<file, expenses, amount, category, saveStatus, output>>

\* the amount loop of add_expense, one pass
EnterAmount ==
    /\ pc = "amount"
    /\ \E raw \in AmountInputs :
          LET f == ParseFloat(strip(raw))
          IN  /\ line' = raw
              /\ IF f.ok /\ ~FloatNegative(f.val)
                 THEN /\ amount' = f.val
                      /\ pc' = "category"
                 ELSE UNCHANGED <<amount, pc>>
    /\ UNCHANGED <<file, expenses, date, category, saveStatus, output>>

NormalCategory(raw) == capitalize(strip(raw))

\* the category prompt of add_expense, one pass
EnterCategory ==
    /\ pc = "category"
    /\ \E raw \in CategoryInputs :
          /\ line' = raw
          /\ IF NormalCategory(raw) # <<>>
             THEN /\ category' = NormalCategory(raw)
                  /\ pc' = "description"
             ELSE UNCHANGED <<category, pc>>
    /\ UNCHANGED <<file, expenses, date, amount, saveStatus, output>>

\* a save that runs before the append: it writes the store as it was
SaveBeforeAppend(exps) ==
    \/ /\ file' = FileWith(SaveText(expenses))
       /\ saveStatus' = "saved"
    \/ /\ file' \in SaveFailures(file, SaveText(expenses))
       /\ saveStatus' = "error"

\* save_expenses_to_csv: the file and the message it ends with
Save(exps) ==
    \/ /\ file' = FileWith(SaveText(exps))
       /\ saveStatus' = "saved"
    \/ /\ file' \in SaveFailures(file, SaveText(exps))
       /\ saveStatus' = "error"

\* the description prompt, the append that ends add_expense, and main's save
EnterDescription ==
    /\ pc = "description"
    /\ \E raw \in DescriptionInputs :
          /\ expenses' = Append(expenses, [date |-> date, amount |-> amount,
                                           category |-> category,
                                           description |-> strip(raw)])
          /\ Save(expenses')
    /\ pc' = "menu"
    /\ date' = <<>>
    /\ amount' = Fin(0)
    /\ category' = <<>>
    /\ line' = NoLine
    /\ output' = Quiet("added")

\* a view that takes the entries out of the list as it totals them
ChooseViewEmptiesStore ==
    /\ pc = "menu"
    /\ \E raw \in ChoiceInputs : IsView(Choice(raw))
    /\ output' = view_expenses(expenses)
    /\ expenses' = <<>>
    /\ UNCHANGED <<pc, file, date, amount, category, line, saveStatus>>

\* choice 2
ChooseView ==
    /\ pc = "menu"
    /\ \E raw \in ChoiceInputs : IsView(Choice(raw))
    /\ output' = view_expenses(expenses)
    /\ UNCHANGED <<pc, file, expenses, date, amount, category, line, saveStatus>>

\* choice 3: an exception of show_statistics ends the process
ChooseStats ==
    /\ pc = "menu"
    /\ \E raw \in ChoiceInputs : IsStats(Choice(raw))
    /\ IF expenses # <<>> /\ StatisticsErrors(expenses) # {}
       THEN /\ pc' = "crashed"
            /\ output' = Quiet("traceback")
       ELSE /\ pc' = pc
            /\ output' = show_statistics(expenses)
    /\ UNCHANGED <<file, expenses, date, amount, category, line, saveStatus>>

\* choice 4
ChooseExit ==
    /\ pc = "menu"
    /\ \E raw \in ChoiceInputs : IsExit(Choice(raw))
    /\ pc' = "exited"
    /\ output' = Quiet("goodbye")
    /\ UNCHANGED <<file, expenses, date, amount, category, line, saveStatus>>

\* anything else
ChooseInvalid ==
    /\ pc = "menu"
    /\ \E raw \in ChoiceInputs :
          LET choice == Choice(raw)
          IN  ~(IsAdd(choice) \/ IsView(choice) \/ IsStats(choice) \/ IsExit(choice))
    /\ output' = Quiet("invalid_choice")
    /\ UNCHANGED <<pc, file, expenses, date, amount, category, line, saveStatus>>

Next ==
    \/ Startup
    \/ ChooseAdd
    \/ EnterDate
    \/ EnterAmount
    \/ EnterCategory
    \/ EnterDescription
    \/ ChooseView
    \/ ChooseStats
    \/ ChooseExit
    \/ ChooseInvalid

Init == InitWith(StartFiles)

Spec == Init /\ [][Next]_vars

\* the runs that only load and report, from every file of LoadFiles
InitLoad == InitWith(LoadFiles)

NextLoad ==
    \/ Startup
    \/ ChooseView
    \/ ChooseStats
    \/ ChooseExit
    \/ ChooseInvalid

SpecLoad == InitLoad /\ [][NextLoad]_vars

(***************************************************************************)
(* What the claims speak of.                                               *)
(***************************************************************************)
\* MM/DD/YYYY: two digits, two digits, four digits, and a date of the calendar
ValidDate(d) ==
    /\ Len(d) = 10
    /\ d[3] = "/"
    /\ d[6] = "/"
    /\ strptime(d)

\* the validation predicate of the data model
ValidExpense(e) ==
    /\ ValidDate(e.date)
    /\ e.amount.k = "fin"
    /\ e.amount.v >= 0
    /\ e.category # <<>>

AllValid(exps) == \A i \in 1..Len(exps) : ValidExpense(exps[i])

IsPrefix(s, t) == Len(s) <= Len(t) /\ SubSeq(t, 1, Len(s)) = s

\* the records of a file's text, and those after the header
RecordsOf(text) == csv_reader(text).rows
DataRows(text) == IF RecordsOf(text) = <<>> THEN <<>> ELSE Tail(RecordsOf(text))

FourFields(row) == Len(row) >= 4

AddReturns == pc = "description" /\ pc' = "menu"

\* C1: after a save that succeeded, loading the file gives back a store of
\* valid entries field by field, in order, with the same length and no error.
C1_RoundTrip ==
    (saveStatus = "saved" /\ AllValid(expenses))
        => load_expenses_from_csv(file.text) = [expenses |-> expenses, error |-> FALSE]

C1_Witness ==
    /\ saveStatus = "saved"
    /\ AllValid(expenses)
    /\ Len(expenses) = 2
    /\ expenses[1].description = <<",", "\"">>
    /\ expenses[2].description = <<>>

\* C2: once a file with a non-numeric amount in a row of four fields or more
\* has been loaded, the store is empty.
HasBadAmount(text) ==
    \E i \in 1..Len(DataRows(text)) :
        FourFields(DataRows(text)[i]) /\ ~ParseFloat(DataRows(text)[i][2]).ok

C2_BadAmountEmptiesStore ==
    (pc # "start" /\ file.exists /\ HasBadAmount(file.text)) => expenses = <<>>

\* C3: no menu action ends the process with an exception; stated for the case
\* the claim argues from, a store whose entries all satisfy the validation
\* predicate (show_statistics then never divides by a total of 0).
C3_NoFatalError == AllValid(expenses) => pc # "crashed"

\* C4: every expense of the store satisfies the validation predicate.
C4_StoreIsValid == AllValid(expenses)

\* C5: after a save that succeeded, and until the next one, the records of the
\* file are the header row and then one row per entry of the store, in order.
C5_FileReflectsStore ==
    saveStatus = "saved"
        => /\ file.exists
           /\ RecordsOf(file.text)
                 = <<HeaderRow>> \o [i \in 1..Len(expenses) |-> ExpenseRow(expenses[i])]

C5_Witness ==
    /\ saveStatus = "saved"
    /\ Len(expenses) = 2
    /\ output.kind = "totals"

\* C6 as stated: the stored category is the trimmed input with its first
\* character upper-cased and the others unchanged; an input empty after
\* trimming is stored nowhere and the prompt comes again.
FirstUpperRestUnchanged(s) == [i \in 1..Len(s) |-> IF i = 1 THEN UpperChar(s[i]) ELSE s[i]]

C6_RestUnchanged ==
    [][pc = "category"
          => IF strip(line') = <<>>
             THEN pc' = "category" /\ category' = category /\ expenses' = expenses
             ELSE category' = FirstUpperRestUnchanged(strip(line'))]_vars

\* C6 as amended: the stored category is the trimmed input with its first
\* character upper-cased and every other character lower-cased; an input empty
\* after trimming is stored nowhere and the prompt comes again; the category
\* of the appended expense is the one accepted.
FirstUpperRestLower(s) ==
    [i \in 1..Len(s) |-> IF i = 1 THEN UpperChar(s[i]) ELSE LowerChar(s[i])]

C6_RestLowered ==
    [][/\ pc = "category"
          => IF strip(line') = <<>>
             THEN pc' = "category" /\ category' = category /\ expenses' = expenses
             ELSE /\ pc' = "description"
                  /\ category' = FirstUpperRestLower(strip(line'))
       /\ AddReturns => expenses'[Len(expenses')].category = category]_vars

C6_Witness ==
    /\ pc = "description"
    /\ line = <<" ", "f", "O", " ">>
    /\ category = <<"F", "o">>

\* C7: an add whose save fails keeps the whole store, the new entry included,
\* and returns to the menu; an add whose save succeeds, after any number of
\* failed saves, leaves a file with every entry of the store.
C7_SaveErrorKeepsStore ==
    [][AddReturns
          => /\ expenses' = Append(expenses, expenses'[Len(expenses')])
             /\ saveStatus' \in {"saved", "error"}
             /\ saveStatus' = "saved"
                   => DataRows(file'.text)
                         = [i \in 1..Len(expenses') |-> ExpenseRow(expenses'[i])]]_vars

C7_Witness ==
    /\ pc = "menu"
    /\ saveStatus = "error"
    /\ Len(expenses) = 2
    /\ file = NoFile

\* C8: after the startup load every step leaves the old store a prefix of the
\* new one; only the return of add changes the store, by one entry at the
\* end; every other step leaves the store and the file as they are.
C8_AppendOnly ==
    [][pc # "start"
          => /\ IsPrefix(expenses, expenses')
             /\ Len(expenses') <= Len(expenses) + 1
             /\ AddReturns => Len(expenses') = Len(expenses) + 1
             /\ ~AddReturns => expenses' = expenses /\ file' = file]_vars

C8_Witness ==
    /\ pc = "menu"
    /\ output.kind = "statistics"
    /\ Len(expenses) = 2
    /\ saveStatus = "saved"

\* C9: when every amount field of the file is numeric, the store after the
\* load is the data rows of four fields or more, in file order.
AmountsNumeric(text) ==
    \A i \in 1..Len(DataRows(text)) :
        Len(DataRows(text)[i]) >= 2 => ParseFloat(DataRows(text)[i][2]).ok

ExpenseOfRow(row) ==
    [date |-> row[1], amount |-> ParseFloat(row[2]).val,
     category |-> row[3], description |-> row[4]]

LongRows(text) == SelectSeq(DataRows(text), FourFields)

C9_ShortRowsSkipped ==
    (pc # "start" /\ file.exists /\ AmountsNumeric(file.text))
        => expenses = [i \in 1..Len(LongRows(file.text)) |-> ExpenseOfRow(LongRows(file.text)[i])]

C9_Witness ==
    /\ pc = "menu"
    /\ file.exists
    /\ AmountsNumeric(file.text)
    /\ Len(DataRows(file.text)) = 2
    /\ ~FourFields(DataRows(file.text)[1])
    /\ Len(expenses) = 1

\* C10: the totals view_expenses reports have one key per category of the
\* store, each the sum of the amounts of that category's entries, and their
\* sum is the sum of all amounts, which is the total of show_statistics.
RECURSIVE AmountsOf(_, _)
AmountsOf(exps, c) ==
    IF exps = <<>> THEN <<>>
    ELSE (IF Head(exps).category = c THEN <<Head(exps).amount>> ELSE <<>>)
         \o AmountsOf(Tail(exps), c)

C10_CategoryTotals ==
    output.kind = "totals"
        => /\ expenses # <<>>
           /\ DOMAIN output.totals = {expenses[i].category : i \in 1..Len(expenses)}
           /\ \A c \in DOMAIN output.totals :
                 output.totals[c] = FloatSum(AmountsOf(expenses, c))
           /\ output.total = FloatSum([i \in 1..Len(expenses) |-> expenses[i].amount])
           /\ output.total = show_statistics(expenses).total

C10_Witness ==
    /\ output.kind = "totals"
    /\ Len(expenses) = 2
    /\ expenses[1].category = expenses[2].category
    /\ expenses[1].amount = Fin(5)
    /\ expenses[2].amount = Fin(5)

====
